---- MODULE Spec2Model ----
(***************************************************************************)
(* Model of the admin inquiry browser, src/src/app/admin/inquiries/page.tsx *)
(* (component AdminInquiries): debounced search, paginated fetch, page     *)
(* navigation and refresh.                                                 *)
(*                                                                         *)
(* A step of the model is one task of the UI event loop: a user event, a   *)
(* timer callback or the continuation of an awaited fetch, together with   *)
(* the render and the effects that React runs for the state it changed.    *)
(* Handlers are written as functions from a state record to a state        *)
(* record, composed in the order the code runs them.                       *)
(***************************************************************************)
EXTENDS Integers, Sequences, FiniteSets, TLC

VARIABLES
    inquiries,            \* useState<Inquiry[]>            (line 51)
    loading,              \* useState(true)                 (line 52)
    error,                \* useState('')                   (line 53)
    selectedInquiry,      \* useState<Inquiry | null>: <<>> is null, <<q>> is q
    isModalOpen,          \* useState(false)                (line 55)
    currentPage,          \* useState(1)                    (line 56)
    searchTerm,           \* raw input                      (line 57)
    debouncedSearchTerm,  \* committed term                 (line 58)
    isSearching,          \* useState(false)                (line 59)
    pagination,           \* useState<PaginationInfo>       (line 60)
    hasInitialLoaded,     \* useRef(false)                  (line 69)
    route,                \* the router's location (router.push, line 84)
    mounted,              \* FALSE until the first commit has run the effects
    timers,               \* pending setTimeout callbacks of the debounce effect
    inFlight,             \* the fetches awaiting their response
    issued,               \* number of fetches issued so far
    lastRequest,          \* the fetch issued last, and how it ended
    idle,                 \* time since the raw input last changed, capped
    burst,                \* the raw value replaced one typed less than the
                          \* quiet period before it, and the quiet period
                          \* has not been exceeded since
    lastOk,               \* <<>> or <<r>>: the 2xx response resolved last
    lastFailed,           \* <<>> or <<r>>: request r failed, and no fetch was
                          \* issued or resolved since
    undisturbed,          \* no other request resolved since the last fetch was issued
    userActed,            \* the user has typed or clicked
    lastClick,            \* the pagination button clicked in the last step,
                          \* "none" if the last step was no such click
    download              \* <<>> or <<text>>: the text of the file saved by
                          \* the last export (a.click(), line 211)

progVars == <<inquiries, loading, error, selectedInquiry, isModalOpen,
              currentPage, searchTerm, debouncedSearchTerm, isSearching,
              pagination, hasInitialLoaded, route, mounted, timers, inFlight>>

vars == <<inquiries, loading, error, selectedInquiry, isModalOpen,
          currentPage, searchTerm, debouncedSearchTerm, isSearching,
          pagination, hasInitialLoaded, route, mounted, timers, inFlight,
          issued, lastRequest,
          idle, burst, lastOk, lastFailed, undisturbed, userActed, lastClick,
          download>>

----------------------------------------------------------------------------
(* Bounds of the model *)

MaxRequests == 4      \* fetches issued in one behaviour
MaxPage == 2          \* largest page number the server reports
MaxViewLen == 2       \* longest list on display when exporting and viewing
MaxLiveRequests == 3  \* fetches issued in one behaviour under fair scheduling

(* Program constants *)

QuietPeriod == 500    \* setTimeout(..., 500)
PageLimit == 10       \* limit: '10'
LoadError == "Failed to load inquiries"
LoginPath == "/admin/login"
InquiriesPath == "/admin/inquiries"

\* granularity of the clock: time is observed twice per quiet period
TickStep == QuietPeriod \div 2

SearchInputs == {"", "a", "b"}

Max(a, b) == IF a > b THEN a ELSE b
Min(a, b) == IF a < b THEN a ELSE b

----------------------------------------------------------------------------
(* Data the server can send *)

Inq1 ==
    [_id |-> <<"1">>, name |-> <<"A">>, email |-> <<"a", "@">>,
     company |-> <<>>, subject |-> <<"S">>, message |-> <<"m", "\"">>,
     timestamp |-> <<"t">>, status |-> <<>>]

Inq2 ==
    [_id |-> <<"2">>, name |-> <<"B">>, email |-> <<"b", "@">>,
     company |-> <<<<"C">>>>, subject |-> <<"T">>, message |-> <<"n">>,
     timestamp |-> <<"u">>, status |-> <<"read">>]

Lists == {<<>>, <<Inq1, Inq2>>}

InitialPagination ==
    [currentPage |-> 1, totalPages |-> 1, totalCount |-> 0,
     hasNextPage |-> FALSE, hasPreviousPage |-> FALSE, limit |-> PageLimit]

\* The pagination objects of a well-behaved server: the flags agree with
\* the page numbers.
ServerPaginations ==
    {[currentPage |-> c, totalPages |-> t,
      totalCount |-> (t - 1) * PageLimit + 1,
      hasNextPage |-> c < t, hasPreviousPage |-> c > 1, limit |-> PageLimit] :
        c \in 1..MaxPage, t \in 1..MaxPage}

\* status 0 stands for a fetch() that rejects (no response at all)
Responses ==
    {[status |-> 0, shape |-> "none", data |-> <<>>, pagination |-> InitialPagination],
     [status |-> 401, shape |-> "none", data |-> <<>>, pagination |-> InitialPagination],
     [status |-> 500, shape |-> "none", data |-> <<>>, pagination |-> InitialPagination]}
    \cup {[status |-> 200, shape |-> "A", data |-> d, pagination |-> p] :
            d \in Lists, p \in {q \in ServerPaginations : q.currentPage <= q.totalPages}}
    \cup {[status |-> 200, shape |-> "B", data |-> d, pagination |-> InitialPagination] :
            d \in Lists}

----------------------------------------------------------------------------
(* The state as a record, so that handlers compose *)

St ==
    [inquiries |-> inquiries, loading |-> loading, error |-> error,
     selectedInquiry |-> selectedInquiry, isModalOpen |-> isModalOpen,
     currentPage |-> currentPage, searchTerm |-> searchTerm,
     debouncedSearchTerm |-> debouncedSearchTerm, isSearching |-> isSearching,
     pagination |-> pagination, hasInitialLoaded |-> hasInitialLoaded,
     route |-> route, mounted |-> mounted, timers |-> timers,
     inFlight |-> inFlight, issued |-> issued, lastRequest |-> lastRequest]

Commit(s) ==
    /\ inquiries' = s.inquiries
    /\ loading' = s.loading
    /\ error' = s.error
    /\ selectedInquiry' = s.selectedInquiry
    /\ isModalOpen' = s.isModalOpen
    /\ currentPage' = s.currentPage
    /\ searchTerm' = s.searchTerm
    /\ debouncedSearchTerm' = s.debouncedSearchTerm
    /\ isSearching' = s.isSearching
    /\ pagination' = s.pagination
    /\ hasInitialLoaded' = s.hasInitialLoaded
    /\ route' = s.route
    /\ mounted' = s.mounted
    /\ timers' = s.timers
    /\ inFlight' = s.inFlight
    /\ issued' = s.issued
    /\ lastRequest' = s.lastRequest

\* the bound on the number of fetches
Within(s) == s.issued <= MaxRequests

Request(id, page, search) == [id |-> id, page |-> page, search |-> search]

\* lines 75-79: the query parameters of a request; search is <<>> when the
\* parameter is absent
params(page, search) ==
    [page |-> page, limit |-> PageLimit,
     search |-> IF search # "" THEN <<search>> ELSE <<>>]

----------------------------------------------------------------------------
(* fetchInquiries, up to its await: lines 72-81 *)

fetchInquiries(s, page, search) ==
    [s EXCEPT !.loading = TRUE,
              !.inFlight = @ \cup {Request(s.issued + 1, page, search)},
              !.issued = @ + 1,
              !.lastRequest = [page |-> page, search |-> search,
                               status |-> "pending"]]

(* The effects: lines 120-151 *)

\* a cleanup that leaves the old timer running
clearTimeoutForgotten(ts) == ts

clearTimeout(ts) == {}

\* a debounce effect that never raises the is-searching flag
debounceEffectSilent(s) ==
    [s EXCEPT !.timers = clearTimeout(@) \cup {[val |-> s.searchTerm, left |-> QuietPeriod]}]

debounceEffect(s) ==
    [s EXCEPT !.isSearching = IF s.searchTerm # s.debouncedSearchTerm THEN TRUE ELSE @,
              !.timers = clearTimeout(@) \cup {[val |-> s.searchTerm, left |-> QuietPeriod]}]

initialLoadEffect(s) ==
    IF ~s.hasInitialLoaded /\ s.debouncedSearchTerm = ""
    THEN fetchInquiries([s EXCEPT !.hasInitialLoaded = TRUE], 1, "")
    ELSE s

\* the search fetch without the reset to the first page
searchFetchEffectKeepsPage(s) ==
    IF ~s.hasInitialLoaded
    THEN s
    ELSE fetchInquiries(s, s.currentPage, s.debouncedSearchTerm)

searchFetchEffect(s) ==
    IF ~s.hasInitialLoaded
    THEN s
    ELSE fetchInquiries([s EXCEPT !.currentPage = 1], 1, s.debouncedSearchTerm)

\* The effects React runs after a commit that took the state from old to
\* new: an effect runs when one of its dependencies changed, in source order.
runEffects(old, new) ==
    LET rawChanged == new.searchTerm # old.searchTerm
        committedChanged == new.debouncedSearchTerm # old.debouncedSearchTerm
        s1 == IF rawChanged \/ committedChanged THEN debounceEffect(new) ELSE new
        s2 == IF committedChanged THEN initialLoadEffect(s1) ELSE s1
    IN  IF committedChanged THEN searchFetchEffect(s2) ELSE s2

(* Handlers: lines 153-167 *)

\* a page change that queries with the raw input
handlePageChangeRawTerm(s, page) ==
    fetchInquiries([s EXCEPT !.currentPage = page], page, s.searchTerm)

handlePageChange(s, page) ==
    fetchInquiries([s EXCEPT !.currentPage = page], page, s.debouncedSearchTerm)

handleSearchChange(s, search) == [s EXCEPT !.searchTerm = search]

\* a refresh that always reloads the first page
handleRefreshFirstPage(s) == fetchInquiries(s, 1, s.debouncedSearchTerm)

handleRefresh(s) == fetchInquiries(s, s.currentPage, s.debouncedSearchTerm)

----------------------------------------------------------------------------
(* Bookkeeping of a step that is not the resolution of a request and takes
   the program to state s *)
Observe(s, click, user) ==
    /\ lastClick' = click
    /\ userActed' = (user \/ userActed)
    /\ lastFailed' = IF s.issued > issued THEN <<>> ELSE lastFailed
    /\ undisturbed' = (s.issued > issued \/ undisturbed)
    /\ lastOk' = lastOk
    /\ download' = download

Init ==
    /\ inquiries = <<>>
    /\ loading = TRUE
    /\ error = ""
    /\ selectedInquiry = <<>>
    /\ isModalOpen = FALSE
    /\ currentPage = 1
    /\ searchTerm = ""
    /\ debouncedSearchTerm = ""
    /\ isSearching = FALSE
    /\ pagination = InitialPagination
    /\ hasInitialLoaded = FALSE
    /\ route = InquiriesPath
    /\ mounted = FALSE
    /\ timers = {}
    /\ inFlight = {}
    /\ issued = 0
    /\ lastRequest = [page |-> 0, search |-> "", status |-> "none"]
    /\ idle = QuietPeriod
    /\ burst = FALSE
    /\ lastOk = <<>>
    /\ lastFailed = <<>>
    /\ undisturbed = TRUE
    /\ userActed = FALSE
    /\ lastClick = "none"
    /\ download = <<>>

\* First commit: the three effects run in source order.
Mount ==
    /\ ~mounted
    /\ LET s == searchFetchEffect(initialLoadEffect(debounceEffect(
                    [St EXCEPT !.mounted = TRUE])))
       IN  Within(s) /\ Commit(s) /\ Observe(s, "none", FALSE)
    /\ UNCHANGED <<idle, burst>>

\* A change of the search input (line 284). The input is not rendered in
\* the error view (lines 225-238).
TypeSearch(search) ==
    /\ mounted
    /\ error = ""
    /\ search # searchTerm
    /\ LET s == runEffects(St, handleSearchChange(St, search))
       IN  Within(s) /\ Commit(s) /\ Observe(s, "none", TRUE)
    /\ idle' = 0
    /\ burst' = (idle < QuietPeriod)

\* Time passes. A timer that is due runs before time passes further.
Tick ==
    /\ mounted
    /\ \A t \in timers : t.left > 0
    /\ timers # {} \/ idle < QuietPeriod
    /\ timers' = {[t EXCEPT !.left = Max(0, @ - TickStep)] : t \in timers}
    /\ idle' = Min(QuietPeriod, idle + TickStep)
    /\ burst' = (burst /\ idle < QuietPeriod)
    /\ lastClick' = "none"
    /\ UNCHANGED <<inquiries, loading, error, selectedInquiry, isModalOpen,
                   currentPage, searchTerm, debouncedSearchTerm, isSearching,
                   pagination, hasInitialLoaded, route, mounted, inFlight,
                   issued, lastRequest,
                   lastOk, lastFailed, undisturbed, userActed, download>>

\* The callback of the debounce timer (lines 126-129), with the captured
\* searchTerm of the render that scheduled it.
timerCallback(s, t) ==
    [s EXCEPT !.timers = @ \ {t},
              !.debouncedSearchTerm = t.val,
              !.isSearching = FALSE]

TimerFires ==
    /\ mounted
    /\ \E t \in timers :
        /\ t.left = 0
        /\ LET s == runEffects(St, timerCallback(St, t))
           IN  /\ Within(s)
               /\ Commit(s)
               /\ Observe(s, "none", FALSE)
    /\ UNCHANGED <<idle, burst>>

----------------------------------------------------------------------------
(* fetchInquiries after its await: lines 83-115 *)

ok(status) == status >= 200 /\ status <= 299

\* a synthesized pagination whose has-previous flag follows the page number
synthesizedWithPrevious(page, result) ==
    [currentPage |-> page, totalPages |-> 1, totalCount |-> Len(result),
     hasNextPage |-> FALSE, hasPreviousPage |-> page > 1, limit |-> PageLimit]

synthesized(page, result) ==
    [currentPage |-> page, totalPages |-> 1, totalCount |-> Len(result),
     hasNextPage |-> FALSE, hasPreviousPage |-> FALSE, limit |-> PageLimit]

outcome(resp) ==
    IF resp.status = 401 THEN "unauthorized"
    ELSE IF ok(resp.status) THEN "ok"
    ELSE "failed"

unauthorized(s) == [s EXCEPT !.route = LoginPath]

\* a catch block that also empties the list
catchAndClear(s) == [s EXCEPT !.error = LoadError, !.inquiries = <<>>]

catch(s) == [s EXCEPT !.error = LoadError]

\* a finally block that leaves the loading flag set
finallyForgotten(s) == s

finally(s) == [s EXCEPT !.loading = FALSE]

\* a response handler that drops the answer to all but the newest request
handleResultIfLatest(s, r, resp) ==
    IF r.id # s.issued
    THEN s
    ELSE IF resp.shape = "A"
    THEN [s EXCEPT !.inquiries = resp.data,
                   !.pagination = resp.pagination,
                   !.currentPage = resp.pagination.currentPage]
    ELSE [s EXCEPT !.inquiries = resp.data,
                   !.pagination = synthesized(r.page, resp.data)]

\* a response handler that appends the new page to the list on display
handleResultMerge(s, r, resp) ==
    IF resp.shape = "A"
    THEN [s EXCEPT !.inquiries = @ \o resp.data,
                   !.pagination = resp.pagination,
                   !.currentPage = resp.pagination.currentPage]
    ELSE [s EXCEPT !.inquiries = @ \o resp.data,
                   !.pagination = synthesized(r.page, resp.data)]

\* a response handler that keeps the locally requested page number
handleResultRequestedPage(s, r, resp) ==
    IF resp.shape = "A"
    THEN [s EXCEPT !.inquiries = resp.data,
                   !.pagination = resp.pagination,
                   !.currentPage = r.page]
    ELSE [s EXCEPT !.inquiries = resp.data,
                   !.pagination = synthesized(r.page, resp.data)]

\* lines 92-110: the body of a 2xx response to request r
handleResult(s, r, resp) ==
    IF resp.shape = "A"
    THEN [s EXCEPT !.inquiries = resp.data,
                   !.pagination = resp.pagination,
                   !.currentPage = resp.pagination.currentPage]
    ELSE [s EXCEPT !.inquiries = resp.data,
                   !.pagination = synthesized(r.page, resp.data)]

onResponse(s, r, resp) ==
    LET settled == [s EXCEPT !.inFlight = @ \ {r},
                             !.lastRequest.status =
                                 IF r.id = s.issued THEN outcome(resp) ELSE @]
    IN  finally(IF resp.status = 0 THEN catch(settled)
                ELSE IF resp.status = 401 THEN unauthorized(settled)
                ELSE IF ~ok(resp.status) THEN catch(settled)
                ELSE handleResult(settled, r, resp))

Resolve(r, resp) ==
    /\ r \in inFlight
    /\ Commit(onResponse(St, r, resp))
    /\ lastOk' = IF ok(resp.status) THEN <<[request |-> r, resp |-> resp]>> ELSE lastOk
    /\ lastFailed' = IF outcome(resp) = "failed" THEN <<r>> ELSE <<>>
    /\ undisturbed' = (r.id = issued /\ undisturbed)
    /\ lastClick' = "none"
    /\ UNCHANGED <<idle, burst, userActed, download>>

----------------------------------------------------------------------------
(* The buttons: lines 232, 254-265, 412-465 *)

\* a button that calls its onClick even when disabled
ButtonIgnoresDisabled(disabled, s, clicked) == clicked

\* a <Button disabled> does not call its onClick
Button(disabled, s, clicked) == IF disabled THEN s ELSE clicked

mainView == mounted /\ error = ""

paginationShown == mainView /\ ~loading /\ Len(inquiries) > 0

ClickRefresh ==
    /\ mainView
    /\ LET s == Button(loading, St, handleRefresh(St))
       IN  Within(s) /\ Commit(s) /\ Observe(s, "none", TRUE)
    /\ UNCHANGED <<idle, burst>>

ClickTryAgain ==
    /\ mounted
    /\ error # ""
    /\ LET s == handleRefresh(St)
       IN  Within(s) /\ Commit(s) /\ Observe(s, "none", TRUE)
    /\ UNCHANGED <<idle, burst>>

ClickFirst ==
    /\ paginationShown
    /\ LET s == Button(~pagination.hasPreviousPage, St, handlePageChange(St, 1))
       IN  Within(s) /\ Commit(s) /\ Observe(s, "first", TRUE)
    /\ UNCHANGED <<idle, burst>>

ClickPrevious ==
    /\ paginationShown
    /\ LET s == Button(~pagination.hasPreviousPage, St,
                       handlePageChange(St, pagination.currentPage - 1))
       IN  Within(s) /\ Commit(s) /\ Observe(s, "previous", TRUE)
    /\ UNCHANGED <<idle, burst>>

ClickNext ==
    /\ paginationShown
    /\ LET s == Button(~pagination.hasNextPage, St,
                       handlePageChange(St, pagination.currentPage + 1))
       IN  Within(s) /\ Commit(s) /\ Observe(s, "next", TRUE)
    /\ UNCHANGED <<idle, burst>>

ClickLast ==
    /\ paginationShown
    /\ LET s == Button(~pagination.hasNextPage, St,
                       handlePageChange(St, pagination.totalPages))
       IN  Within(s) /\ Commit(s) /\ Observe(s, "last", TRUE)
    /\ UNCHANGED <<idle, burst>>

----------------------------------------------------------------------------
Next ==
    \/ Mount
    \/ \E search \in SearchInputs : TypeSearch(search)
    \/ Tick
    \/ TimerFires
    \/ \E r \in inFlight, resp \in Responses : Resolve(r, resp)
    \/ ClickRefresh
    \/ ClickTryAgain
    \/ ClickFirst
    \/ ClickPrevious
    \/ ClickNext
    \/ ClickLast

Spec == Init /\ [][Next]_vars

----------------------------------------------------------------------------
(* CSV export: lines 179-213. A text is a sequence of characters; a word
   without separators or quotes ("ID", "new") is written as one element. *)

Comma == ","
Quote == "\""
Newline == "\n"

RECURSIVE join(_, _)
\* Array.prototype.join
join(parts, sep) ==
    IF parts = <<>> THEN <<>>
    ELSE IF Len(parts) = 1 THEN parts[1]
    ELSE parts[1] \o <<sep>> \o join(Tail(parts), sep)

\* a replace that leaves the text as it is
replaceNothing(text) == text

RECURSIVE replaceQuotes(_)
\* .replace(/"/g, '""')
replaceQuotes(text) ==
    IF text = <<>> THEN <<>>
    ELSE (IF Head(text) = Quote THEN <<Quote, Quote>> ELSE <<Head(text)>>)
         \o replaceQuotes(Tail(text))

\* `"${x}"`
quoted(text) == <<Quote>> \o text \o <<Quote>>

headers ==
    <<<<"ID">>, <<"Name">>, <<"Email">>, <<"Company">>, <<"Subject">>,
      <<"Message">>, <<"Status">>, <<"Timestamp">>>>

\* lines 193-202: the record of one inquiry
csvRow(inquiry) ==
    join(<<inquiry._id,
           quoted(inquiry.name),
           inquiry.email,
           IF inquiry.company = <<>> THEN <<>> ELSE inquiry.company[1],
           quoted(inquiry.subject),
           quoted(replaceQuotes(inquiry.message)),
           IF inquiry.status = <<>> THEN <<"new">> ELSE inquiry.status,
           inquiry.timestamp>>, Comma)

\* lines 190-204
csvContent(list) ==
    join(<<join(headers, Comma)>> \o [i \in 1..Len(list) |-> csvRow(list[i])],
         Newline)

(* The detail view: lines 215-223 and 470 *)

openInquiryModal(s, inquiry) ==
    [s EXCEPT !.selectedInquiry = <<inquiry>>, !.isModalOpen = TRUE]

\* a close that keeps the selected record
closeInquiryModalKeepsRecord(s) == [s EXCEPT !.isModalOpen = FALSE]

closeInquiryModal(s) ==
    [s EXCEPT !.selectedInquiry = <<>>, !.isModalOpen = FALSE]

\* onOpenChange={setIsModalOpen}
onOpenChange(s, open) == [s EXCEPT !.isModalOpen = open]

----------------------------------------------------------------------------
(* Export and detail view on a loaded page. The lists on display are drawn
   from records that differ in the fields the export treats specially. *)

ViewInquiries ==
    {Inq1, Inq2} \cup
    {[_id |-> <<"3">>, name |-> n, email |-> <<"c", "@">>, company |-> c,
      subject |-> <<"S">>, message |-> m, timestamp |-> <<"t">>, status |-> st] :
        n \in {<<"A">>, <<"A", " ", "B">>},
        c \in {<<>>, <<<<"C">>>>},
        m \in {<<"m">>, <<Quote, "m", Quote>>, <<"m", Quote, Quote>>},
        st \in {<<>>, <<"replied">>}}
    \cup
    \* records with a separator or a quote in a field other than the message
    {[_id |-> <<"4">>, name |-> <<"A", Quote>>, email |-> <<"d", "@">>,
      company |-> <<>>, subject |-> <<"S">>, message |-> <<"m">>,
      timestamp |-> <<"t">>, status |-> <<>>],
     [_id |-> <<"5">>, name |-> <<"A">>, email |-> <<"e", "@">>,
      company |-> <<>>, subject |-> <<Quote, "S">>, message |-> <<"m">>,
      timestamp |-> <<"t">>, status |-> <<>>],
     [_id |-> <<"6", Comma>>, name |-> <<"A">>, email |-> <<"f", "@">>,
      company |-> <<<<"C", Comma, "D">>>>, subject |-> <<"S">>,
      message |-> <<"m">>, timestamp |-> <<"t">>, status |-> <<>>],
     [_id |-> <<"7">>, name |-> <<"A">>, email |-> <<"g", Quote, "@">>,
      company |-> <<>>, subject |-> <<"S">>, message |-> <<"m">>,
      timestamp |-> <<"t", Newline, "u">>, status |-> <<>>]}

ViewLists ==
    UNION {[1..n -> ViewInquiries] : n \in 0..MaxViewLen}

\* The page after startup once both startup requests were answered with
\* the same bare array and the debounce timer of the mount has fired.
InitView ==
    /\ inquiries \in ViewLists
    /\ loading = FALSE
    /\ error = ""
    /\ selectedInquiry = <<>>
    /\ isModalOpen = FALSE
    /\ currentPage = 1
    /\ searchTerm = ""
    /\ debouncedSearchTerm = ""
    /\ isSearching = FALSE
    /\ pagination = synthesized(1, inquiries)
    /\ hasInitialLoaded = TRUE
    /\ route = InquiriesPath
    /\ mounted = TRUE
    /\ timers = {}
    /\ inFlight = {}
    /\ issued = 2
    /\ lastRequest = [page |-> 1, search |-> "", status |-> "ok"]
    /\ idle = QuietPeriod
    /\ burst = FALSE
    /\ lastOk = <<[request |-> Request(2, 1, ""),
                   resp |-> [status |-> 200, shape |-> "B", data |-> inquiries,
                             pagination |-> InitialPagination]]>>
    /\ lastFailed = <<>>
    /\ undisturbed = FALSE
    /\ userActed = FALSE
    /\ lastClick = "none"
    /\ download = <<>>

\* The Export CSV button (lines 266-273): the text goes to the file that
\* a.click() saves.
ClickExport ==
    /\ mainView
    /\ download' = <<csvContent(inquiries)>>
    /\ userActed' = TRUE
    /\ lastClick' = "none"
    /\ UNCHANGED <<inquiries, loading, error, selectedInquiry, isModalOpen,
                   currentPage, searchTerm, debouncedSearchTerm, isSearching,
                   pagination, hasInitialLoaded, route, mounted, timers,
                   inFlight, issued, lastRequest,
                   idle, burst, lastOk, lastFailed, undisturbed>>

\* The View button of row i (lines 394-402), rendered with the rows.
ClickView(i) ==
    /\ mainView
    /\ ~loading
    /\ i \in 1..Len(inquiries)
    /\ LET s == openInquiryModal(St, inquiries[i])
       IN  Commit(s) /\ Observe(s, "none", TRUE)
    /\ UNCHANGED <<idle, burst>>

\* The Close button (lines 591-597), rendered in the open dialog when a
\* record is selected.
ClickClose ==
    /\ mainView
    /\ isModalOpen
    /\ selectedInquiry # <<>>
    /\ LET s == closeInquiryModal(St)
       IN  Commit(s) /\ Observe(s, "none", TRUE)
    /\ UNCHANGED <<idle, burst>>

\* The Dialog dismisses itself (Escape, click outside): line 470.
DialogDismiss ==
    /\ mainView
    /\ isModalOpen
    /\ LET s == onOpenChange(St, FALSE)
       IN  Commit(s) /\ Observe(s, "none", TRUE)
    /\ UNCHANGED <<idle, burst>>

NextView ==
    \/ ClickExport
    \/ \E i \in 1..MaxViewLen : ClickView(i)
    \/ ClickClose
    \/ DialogDismiss

SpecView == InitView /\ [][NextView]_vars

----------------------------------------------------------------------------
(* The page under fair scheduling: the event loop runs every due timer
   callback and every continuation of a fetch that has settled, time
   passes, and React mounts the component. The user may act or not. *)

\* the fetches still to come fit the bound: a raw input that awaits its
\* commit counts as one
Budget ==
    issued + (IF searchTerm # debouncedSearchTerm THEN 1 ELSE 0) <= MaxLiveRequests

UserEvent ==
    \/ \E search \in SearchInputs : TypeSearch(search)
    \/ ClickRefresh
    \/ ClickTryAgain
    \/ ClickFirst
    \/ ClickPrevious
    \/ ClickNext
    \/ ClickLast

NextLive ==
    \/ Mount
    \/ \E search \in SearchInputs : TypeSearch(search) /\ Budget'
    \/ ClickRefresh /\ Budget'
    \/ ClickTryAgain /\ Budget'
    \/ ClickFirst /\ Budget'
    \/ ClickPrevious /\ Budget'
    \/ ClickNext /\ Budget'
    \/ ClickLast /\ Budget'
    \/ Tick
    \/ TimerFires
    \/ \E r \in inFlight, resp \in Responses : Resolve(r, resp)

Fairness ==
    /\ WF_vars(Mount)
    /\ WF_vars(Tick)
    /\ WF_vars(TimerFires)
    /\ WF_vars(\E r \in inFlight, resp \in Responses : Resolve(r, resp))

SpecLive == Init /\ [][NextLive]_vars /\ Fairness

----------------------------------------------------------------------------
(* Debounced search *)

\* C1: the committed term only ever changes to the current raw input, and
\* only when that input has been stable for the quiet period; and every
\* fetch that is issued carries the committed term, so a value overwritten
\* within the quiet period is never committed and never fetched.
C1_Debounce ==
    [][/\ debouncedSearchTerm' # debouncedSearchTerm =>
            /\ debouncedSearchTerm' = searchTerm
            /\ searchTerm' = searchTerm
            /\ idle >= QuietPeriod
       /\ \A r \in inFlight' \ inFlight : r.search = debouncedSearchTerm']_vars

\* a burst of keystrokes has ended, its last value is committed, and the
\* one fetch issued since startup carries it
C1_Witness ==
    /\ burst
    /\ idle = QuietPeriod
    /\ debouncedSearchTerm = searchTerm
    /\ debouncedSearchTerm # ""
    /\ issued = 3
    /\ lastRequest.search = debouncedSearchTerm

\* C2: as long as the user does nothing, exactly one fetch is issued.
C2_SingleStartupFetch == (mounted /\ ~userActed) => issued = 1

\* C3: a step that changes the committed term sets the current page to 1
\* and issues exactly one fetch, for page 1 and the new committed term.
C3_CommitFetchesFirstPage ==
    [][debouncedSearchTerm' # debouncedSearchTerm =>
            /\ currentPage' = 1
            /\ issued' = issued + 1
            /\ inFlight' = inFlight \cup {Request(issued', 1, debouncedSearchTerm')}]_vars

\* the term was committed back to "" while page 2 of a search was shown:
\* the four fetches are the two of startup, the search and this one
C3_Witness ==
    /\ issued = 4
    /\ debouncedSearchTerm = ""
    /\ lastOk # <<>>
    /\ lastOk[1].request.search # ""
    /\ pagination.currentPage > 1
    /\ currentPage = 1
    /\ inFlight = {Request(4, 1, "")}

----------------------------------------------------------------------------
(* Overlapping requests *)

\* C4: the list and the pagination are those of the successful response
\* that resolved last, whichever request it answers.
C4_LastResolvedWins ==
    IF lastOk = <<>>
    THEN inquiries = <<>> /\ pagination = InitialPagination
    ELSE LET r == lastOk[1].request
             resp == lastOk[1].resp
         IN  /\ inquiries = resp.data
             /\ pagination = IF resp.shape = "A" THEN resp.pagination
                             ELSE synthesized(r.page, resp.data)

\* nothing is in flight, the newest request was answered, and the list on
\* display is the answer to an older request for another (page, term)
C4_Witness ==
    /\ inFlight = {}
    /\ lastOk # <<>>
    /\ lastOk[1].request.id < issued
    /\ lastRequest.status = "ok"
    /\ <<lastOk[1].request.page, lastOk[1].request.search>>
         # <<lastRequest.page, lastRequest.search>>

\* C5: loading is true whenever a request is in flight.
C5_LoadingCoversRequests == inFlight # {} => loading

----------------------------------------------------------------------------
(* Failures *)

\* C6: a 401 response navigates to the login path, leaves list and
\* pagination alone, sets no error, and leaves the error state empty.
C6_UnauthorizedShowsNoError ==
    [][\A r \in inFlight, resp \in Responses :
        (resp.status = 401 /\ r \notin inFlight' /\ Resolve(r, resp)) =>
            /\ route' = LoginPath
            /\ inquiries' = inquiries
            /\ pagination' = pagination
            /\ error' = error
            /\ error' = ""]_vars

\* C7: a response that is neither 2xx nor 401, or a fetch that throws, sets
\* the error message, clears loading and leaves list and pagination alone.
C7_FailureKeepsList ==
    [][\A r \in inFlight, resp \in Responses :
        (outcome(resp) = "failed" /\ r \notin inFlight' /\ Resolve(r, resp)) =>
            /\ error' = LoadError
            /\ loading' = FALSE
            /\ inquiries' = inquiries
            /\ pagination' = pagination]_vars

\* a fetch has just failed while a loaded list was on display
C7_Witness ==
    /\ lastFailed # <<>>
    /\ error = LoadError
    /\ ~loading
    /\ inquiries # <<>>
    /\ pagination # InitialPagination

----------------------------------------------------------------------------
(* Retry and page navigation *)

IssuesOne(page, search) ==
    /\ issued' = issued + 1
    /\ inFlight' = inFlight \cup {Request(issued', page, search)}

\* C8, as claimed: no response and no passage of time issues a fetch, and
\* when a fetch has failed and no fetch was issued or resolved since,
\* Refresh / Try Again issues exactly one fetch for the pair of the failed one.
C8_RetryReplaysFailedPair ==
    [][/\ (inFlight \ inFlight' # {} \/ Tick) => inFlight' \subseteq inFlight
       /\ (lastFailed # <<>> /\ (ClickRefresh \/ ClickTryAgain)) =>
            IssuesOne(lastFailed[1].page, lastFailed[1].search)]_vars

\* C8, amended: no response and no passage of time issues a fetch; Try Again
\* issues exactly one fetch, for the current page and the committed term; and
\* that is the pair of the failed fetch when the failed fetch is the one
\* issued last and no other request has resolved since it was issued.
C8_RetryReplaysLastKnownPair ==
    [][/\ (inFlight \ inFlight' # {} \/ Tick) =>
            (inFlight' \subseteq inFlight /\ issued' = issued)
       /\ ClickTryAgain => IssuesOne(currentPage, debouncedSearchTerm)
       /\ (/\ lastFailed # <<>>
           /\ lastFailed[1].id = issued
           /\ undisturbed
           /\ (ClickRefresh \/ ClickTryAgain)) =>
            IssuesOne(lastFailed[1].page, lastFailed[1].search)]_vars

\* the fetch issued last, for page 2, has failed undisturbed; nothing is in
\* flight, and Try Again can be clicked
C8_Witness ==
    /\ lastFailed # <<>>
    /\ lastFailed[1].id = issued
    /\ lastFailed[1].page > 1
    /\ undisturbed
    /\ inFlight = {}
    /\ error # ""
    /\ issued < MaxRequests

\* C9: a click on first or previous while hasPreviousPage is false, or on
\* next or last while hasNextPage is false, changes nothing and issues no
\* fetch.
C9_DisabledNavigationIsNoOp ==
    [][/\ (~pagination.hasPreviousPage /\ (ClickFirst \/ ClickPrevious)) =>
            (UNCHANGED progVars /\ issued' = issued)
       /\ (~pagination.hasNextPage /\ (ClickNext \/ ClickLast)) =>
            (UNCHANGED progVars /\ issued' = issued)]_vars

\* a disabled jump-to-first or previous button was just clicked
C9_Witness ==
    /\ lastClick \in {"first", "previous"}
    /\ ~pagination.hasPreviousPage
    /\ pagination.hasNextPage

\* C10: the fetch of a page navigation is for the target page and for the
\* committed term at the time of the click.
C10_NavigationUsesCommittedTerm ==
    [][/\ (ClickFirst /\ issued' # issued) =>
            IssuesOne(1, debouncedSearchTerm)
       /\ (ClickPrevious /\ issued' # issued) =>
            IssuesOne(pagination.currentPage - 1, debouncedSearchTerm)
       /\ (ClickNext /\ issued' # issued) =>
            IssuesOne(pagination.currentPage + 1, debouncedSearchTerm)
       /\ (ClickLast /\ issued' # issued) =>
            IssuesOne(pagination.totalPages, debouncedSearchTerm)]_vars

\* next was clicked inside the debounce window: the fetch in flight is for
\* the next page and the committed term, not for the raw input
C10_Witness ==
    /\ lastClick = "next"
    /\ loading
    /\ searchTerm # debouncedSearchTerm
    /\ timers # {}
    /\ inFlight = {Request(issued, pagination.currentPage + 1, debouncedSearchTerm)}

----------------------------------------------------------------------------
(* Applying a response *)

\* the step is the resolution of a request with a 2xx response
AppliesOk == lastOk' # <<>> /\ lastOk'[1].request \in inFlight \ inFlight'

\* C11: a step that applies a 2xx response in shape A makes the list the
\* response's data, the pagination the response's pagination and the local
\* current page the response's pagination.currentPage; the page indicator
\* shows pagination.currentPage, and a Refresh fetches the local current page.
C11_ShapeAAdoptsServerPage ==
    [][/\ (AppliesOk /\ lastOk'[1].resp.shape = "A") =>
            /\ inquiries' = lastOk'[1].resp.data
            /\ pagination' = lastOk'[1].resp.pagination
            /\ currentPage' = lastOk'[1].resp.pagination.currentPage
       /\ (ClickRefresh /\ issued' # issued) =>
            IssuesOne(currentPage, debouncedSearchTerm)]_vars

\* a request for page 1 was answered in shape A with the server on page 2,
\* and the Refresh clicked after it is in flight for page 2
C11_Witness ==
    /\ lastOk # <<>>
    /\ lastOk[1].resp.shape = "A"
    /\ lastOk[1].request.page = 1
    /\ lastOk[1].resp.pagination.currentPage = 2
    /\ pagination.currentPage = 2
    /\ currentPage = 2
    /\ error = ""
    /\ lastClick = "none"
    /\ undisturbed
    /\ lastOk[1].request.id < issued
    /\ inFlight = {Request(issued, 2, debouncedSearchTerm)}

\* C12: a step that applies a 2xx response in shape B, a bare array of
\* length n, makes the list that array and the pagination totalPages = 1,
\* totalCount = n, hasNextPage = false, hasPreviousPage = false, limit = 10,
\* whatever page was requested.
C12_ShapeBSynthesizesPagination ==
    [][(AppliesOk /\ lastOk'[1].resp.shape = "B") =>
            /\ inquiries' = lastOk'[1].resp.data
            /\ pagination'.totalPages = 1
            /\ pagination'.totalCount = Len(lastOk'[1].resp.data)
            /\ pagination'.hasNextPage = FALSE
            /\ pagination'.hasPreviousPage = FALSE
            /\ pagination'.limit = 10]_vars

\* a request for page 2 was answered with a bare array of two inquiries
C12_Witness ==
    /\ lastOk # <<>>
    /\ lastOk[1].resp.shape = "B"
    /\ lastOk[1].request.page = 2
    /\ Len(inquiries) = 2
    /\ pagination.totalCount = 2
    /\ pagination.totalPages = 1

\* C13: the pagination held by the client has hasPreviousPage exactly when
\* currentPage > 1 and hasNextPage exactly when currentPage < totalPages
\* (the server's pagination objects, ServerPaginations, all do).
C13_PaginationConsistent ==
    /\ pagination.hasPreviousPage <=> pagination.currentPage > 1
    /\ pagination.hasNextPage <=> pagination.currentPage < pagination.totalPages

\* C14: the list and the pagination are the initial values until a 2xx
\* response is applied, and a step that changes either of them applies one
\* 2xx response and takes both from it: the list is the response's data,
\* not a merge with the list before.
C14_ReplacedTogether ==
    /\ [](lastOk = <<>> => (inquiries = <<>> /\ pagination = InitialPagination))
    /\ [][(inquiries' # inquiries \/ pagination' # pagination) =>
            /\ AppliesOk
            /\ inquiries' = lastOk'[1].resp.data
            /\ pagination' = IF lastOk'[1].resp.shape = "A"
                             THEN lastOk'[1].resp.pagination
                             ELSE synthesized(lastOk'[1].request.page,
                                              lastOk'[1].resp.data)]_vars

\* a loaded list of two inquiries was replaced by the empty list of a later
\* response, together with that response's pagination
C14_Witness ==
    /\ lastOk # <<>>
    /\ lastOk[1].request.id >= 3
    /\ lastOk[1].resp.shape = "A"
    /\ lastOk[1].resp.data = <<>>
    /\ inquiries = <<>>
    /\ pagination = lastOk[1].resp.pagination
    /\ pagination.totalPages = 2
    /\ inFlight = {}

----------------------------------------------------------------------------
(* Requests *)

WellFormed(r) ==
    LET q == params(r.page, r.search)
    IN  /\ q.limit = 10
        /\ q.page >= 1
        /\ (q.search # <<>>) <=> (r.search # "")

\* C15: startup, a change of the committed term, a page navigation and a
\* refresh each issue exactly one request, and every request issued has
\* limit = 10, a page >= 1 and a search parameter exactly when the term
\* passed is not empty.
C15_OneWellFormedRequestPerTrigger ==
    [][/\ Mount => issued' = issued + 1
       /\ debouncedSearchTerm' # debouncedSearchTerm => issued' = issued + 1
       /\ (ClickRefresh /\ ~loading) => issued' = issued + 1
       /\ ClickTryAgain => issued' = issued + 1
       /\ (pagination.hasPreviousPage /\ (ClickFirst \/ ClickPrevious)) =>
            issued' = issued + 1
       /\ (pagination.hasNextPage /\ (ClickNext \/ ClickLast)) =>
            issued' = issued + 1
       /\ \A r \in inFlight' \ inFlight : WellFormed(r)]_vars

----------------------------------------------------------------------------
(* Search state *)

\* C16: whenever the raw input differs from the committed term, a debounce
\* timer is pending and is-searching is true; and the step in which a timer
\* fires leaves the committed term equal to the raw input and is-searching
\* false.
C16_SearchState ==
    /\ [](searchTerm # debouncedSearchTerm => (timers # {} /\ isSearching))
    /\ [][TimerFires =>
            (debouncedSearchTerm' = searchTerm' /\ ~isSearching')]_vars

\* a second term was typed after a first one was committed, and its timer
\* is due
C16_Witness ==
    /\ searchTerm # debouncedSearchTerm
    /\ debouncedSearchTerm # ""
    /\ isSearching
    /\ \E t \in timers : t.left = 0 /\ t.val = searchTerm

----------------------------------------------------------------------------
(* Export and detail view *)

Header ==
    <<"ID", ",", "Name", ",", "Email", ",", "Company", ",", "Subject", ",",
      "Message", ",", "Status", ",", "Timestamp">>

\* text with every double quote written twice
Doubled(text) ==
    LET RECURSIVE from(_)
        from(i) == IF i > Len(text) THEN <<>>
                   ELSE IF text[i] = "\"" THEN <<"\"", "\"">> \o from(i + 1)
                   ELSE <<text[i]>> \o from(i + 1)
    IN  from(1)

Record(q) ==
    q._id \o <<",", "\"">> \o q.name \o <<"\"", ",">> \o q.email \o <<",">>
    \o (IF q.company = <<>> THEN <<>> ELSE q.company[1])
    \o <<",", "\"">> \o q.subject \o <<"\"", ",", "\"">>
    \o Doubled(q.message) \o <<"\"", ",">>
    \o (IF q.status = <<>> THEN <<"new">> ELSE q.status)
    \o <<",">> \o q.timestamp

Exported(list) ==
    LET RECURSIVE upTo(_)
        upTo(n) == IF n = 0 THEN Header
                   ELSE upTo(n - 1) \o <<"\n">> \o Record(list[n])
    IN  upTo(Len(list))

\* C17: the text exported is the header row followed by one record per
\* inquiry of the loaded list, in list order, with name, subject and message
\* in double quotes, every double quote of the message doubled, a missing
\* company empty and a missing status 'new'; the export changes no state
\* of the view and issues no fetch.
C17_ExportIsTransformOfLoadedList ==
    [][ClickExport =>
            /\ download' = <<Exported(inquiries)>>
            /\ UNCHANGED progVars
            /\ issued' = issued]_vars

\* a list of two was exported whose first message holds a double quote and
\* whose first record has no company and no status
C17_Witness ==
    /\ download # <<>>
    /\ Len(inquiries) = 2
    /\ \E i \in 1..Len(inquiries[1].message) : inquiries[1].message[i] = "\""
    /\ inquiries[1].company = <<>>
    /\ inquiries[1].status = <<>>
    /\ inquiries[2].company # <<>>
    /\ inquiries[2].status # <<>>

ViewFrame ==
    /\ UNCHANGED <<inquiries, pagination, currentPage, searchTerm,
                   debouncedSearchTerm, loading, error>>
    /\ inFlight' = inFlight
    /\ issued' = issued

\* C18: opening and closing the detail view issue no fetch and leave list,
\* pagination, current page, raw and committed term, loading and error
\* unchanged; opening selects the clicked record and shows the panel, the
\* Close button clears the selected record and hides the panel.
C18_DetailViewTogglesOnly ==
    [][/\ \A i \in 1..MaxViewLen :
            ClickView(i) =>
                /\ ViewFrame
                /\ selectedInquiry' = <<inquiries[i]>>
                /\ isModalOpen'
       /\ ClickClose =>
            /\ ViewFrame
            /\ selectedInquiry' = <<>>
            /\ ~isModalOpen'
       /\ DialogDismiss => (ViewFrame /\ ~isModalOpen')]_vars

\* the second of two different records is open in the detail view
C18_Witness ==
    /\ isModalOpen
    /\ Len(inquiries) = 2
    /\ inquiries[1] # inquiries[2]
    /\ selectedInquiry = <<inquiries[2]>>
    /\ userActed

----------------------------------------------------------------------------
(* Recovery and quiescence *)

\* C19: a step that applies a successful response leaves the error state
\* empty, so a success after a failure brings the table back.
C19_SuccessClearsError == [][AppliesOk => error' = ""]_vars

Quiescent ==
    /\ debouncedSearchTerm = searchTerm
    /\ ~isSearching
    /\ inFlight = {}
    /\ ~loading

\* C20: if from some point on the user produces no event, then, with every
\* due timer firing and every request resolving, the page reaches and stays
\* in a state where the committed term is the raw input, is-searching is
\* false, no request is in flight and loading is false.
C20_Quiescence == <>[][~UserEvent]_vars => <>[]Quiescent

\* the page is quiet after a search was typed and committed and a request
\* for it was answered
C20_Witness ==
    /\ Quiescent
    /\ timers = {}
    /\ debouncedSearchTerm # ""
    /\ issued >= 3
    /\ lastRequest.search = debouncedSearchTerm
    /\ lastRequest.status # "pending"

----------------------------------------------------------------------------
(* CSV round trip *)

\* A reader of CSV text with the standard quoting rules: fields are
\* separated by commas and records by newlines; a field that starts with a
\* double quote runs to its closing double quote, and inside it a doubled
\* double quote stands for one. mode is "start" at the start of a field,
\* "plain" in an unquoted field, "quoted" inside the quotes and "closed"
\* after the closing quote.
RECURSIVE ReadCSV(_, _, _, _, _, _)
ReadCSV(text, i, mode, field, record, records) ==
    IF i > Len(text)
    THEN records \o <<record \o <<field>>>>
    ELSE LET c == text[i]
         IN  IF mode = "quoted"
             THEN IF c # "\""
                  THEN ReadCSV(text, i + 1, "quoted", field \o <<c>>, record, records)
                  ELSE IF i < Len(text) /\ text[i + 1] = "\""
                  THEN ReadCSV(text, i + 2, "quoted", field \o <<c>>, record, records)
                  ELSE ReadCSV(text, i + 1, "closed", field, record, records)
             ELSE IF c = ","
             THEN ReadCSV(text, i + 1, "start", <<>>, record \o <<field>>, records)
             ELSE IF c = "\n"
             THEN ReadCSV(text, i + 1, "start", <<>>, <<>>,
                          records \o <<record \o <<field>>>>)
             ELSE IF c = "\"" /\ mode = "start"
             THEN ReadCSV(text, i + 1, "quoted", field, record, records)
             ELSE ReadCSV(text, i + 1, IF mode = "closed" THEN "closed" ELSE "plain",
                          field \o <<c>>, record, records)

Parsed(text) == ReadCSV(text, 1, "start", <<>>, <<>>, <<>>)

Fields(q) ==
    <<q._id, q.name, q.email,
      IF q.company = <<>> THEN <<>> ELSE q.company[1],
      q.subject, q.message,
      IF q.status = <<>> THEN <<"new">> ELSE q.status,
      q.timestamp>>

\* C21: reading the exported text with the standard CSV quoting rules gives,
\* after the header, exactly one record of 8 fields per loaded inquiry, with
\* the values id, name, email, company or empty, subject, message, status or
\* 'new', timestamp of that inquiry, whatever the fields contain.
C21_ExportRoundTrips ==
    download # <<>> =>
        Tail(Parsed(download[1])) = [i \in 1..Len(inquiries) |-> Fields(inquiries[i])]
====
